---- MODULE Spec2Model ----
(***************************************************************************)
(* FluxDB: an in-memory key-value store served over TCP with a RESP-style  *)
(* wire protocol (src/config/config.go, src/main.go).                      *)
(*                                                                         *)
(* A Go string is modelled as a sequence of one-character strings, so that *)
(* the codec (parseRESP, parseArray, parseBulkString, the write* family)   *)
(* works on bytes as the code does.  The store is the FluxDB struct: the   *)
(* two maps and the single sync.RWMutex that guards both.  Every           *)
(* connection is a goroutine running HandleConnection; its steps are the   *)
(* places where it can be preempted with respect to the shared struct:     *)
(* taking the lock, the map access, releasing the lock.                    *)
(***************************************************************************)
EXTENDS Integers, Sequences, FiniteSets, TLC

(***************************************************************************)
(* Bytes                                                                   *)
(***************************************************************************)
CR == "\r"
LF == "\n"
SP == " "
TAB == "\t"
CRLF == <<CR, LF>>

Digits == <<"0", "1", "2", "3", "4", "5", "6", "7", "8", "9">>

IsDigit(ch) == \E i \in 1..10 : Digits[i] = ch

DigitVal(ch) == (CHOOSE i \in 1..10 : Digits[i] = ch) - 1

\* unicode.IsSpace on the bytes a stream of this model can carry
IsSpace(ch) == ch \in {SP, TAB, LF, CR}

Lower == <<"a","b","c","d","e","f","g","h","i","j","k","l","m",
           "n","o","p","q","r","s","t","u","v","w","x","y","z">>
Upper == <<"A","B","C","D","E","F","G","H","I","J","K","L","M",
           "N","O","P","Q","R","S","T","U","V","W","X","Y","Z">>

\* unicode.ToUpper of one byte
UpperCh(ch) ==
  IF \E i \in 1..26 : Lower[i] = ch
  THEN Upper[CHOOSE i \in 1..26 : Lower[i] = ch]
  ELSE ch

\* strings.ToUpper
ToUpper(s) == [i \in 1..Len(s) |-> UpperCh(s[i])]

\* s[from:] of Go, with a 1-based first index
Drop(s, n) == SubSeq(s, n + 1, Len(s))

\* strings.TrimSpace
TrimSpace(s) ==
  LET idx == {i \in 1..Len(s) : ~IsSpace(s[i])}
  IN  IF idx = {} THEN <<>>
      ELSE SubSeq(s, CHOOSE i \in idx : \A j \in idx : i <= j,
                     CHOOSE i \in idx : \A j \in idx : j <= i)

RECURSIVE Fields(_)
\* strings.Fields: the maximal runs of non-space bytes
Fields(s) ==
  LET idx == {i \in 1..Len(s) : ~IsSpace(s[i])}
  IN  IF idx = {} THEN <<>>
      ELSE LET a == CHOOSE i \in idx : \A j \in idx : i <= j
               stop == {i \in a..Len(s) : IsSpace(s[i])}
               b == IF stop = {} THEN Len(s) + 1
                    ELSE CHOOSE i \in stop : \A j \in stop : i <= j
           IN  <<SubSeq(s, a, b - 1)>> \o Fields(Drop(s, b - 1))

\* the decimal digits of the largest int (64 bits) and of its negative bound
MaxIntDigits ==
  <<"9","2","2","3","3","7","2","0","3","6","8","5","4","7","7","5","8","0","7">>
MinIntDigits ==
  <<"9","2","2","3","3","7","2","0","3","6","8","5","4","7","7","5","8","0","8">>

\* values above this are told apart from each other no further
Huge == 1000000000

RECURSIVE StripZeros(_)
StripZeros(s) ==
  IF Len(s) > 1 /\ Head(s) = "0" THEN StripZeros(Tail(s)) ELSE s

\* a > b for two digit strings of the same length
DigitsGreater(a, b) ==
  \E i \in 1..Len(a) :
    /\ DigitVal(a[i]) > DigitVal(b[i])
    /\ \A j \in 1..(i - 1) : a[j] = b[j]

RECURSIVE DigitsVal(_, _)
DigitsVal(s, acc) ==
  IF s = <<>> THEN acc
  ELSE DigitsVal(Tail(s), acc * 10 + DigitVal(Head(s)))

\* strconv.Atoi: an optional sign, then one or more decimal digits, in the
\* range of int
Atoi(s) ==
  LET signed == s # <<>> /\ Head(s) \in {"+", "-"}
      body == IF signed THEN Tail(s) ELSE s
      neg == signed /\ Head(s) = "-"
      d == StripZeros(body)
      limit == IF neg THEN MinIntDigits ELSE MaxIntDigits
  IN  IF body = <<>> \/ \E i \in 1..Len(body) : ~IsDigit(body[i])
      THEN [ok |-> FALSE, val |-> 0]
      ELSE IF Len(d) > 19 \/ (Len(d) = 19 /\ DigitsGreater(d, limit))
      THEN [ok |-> FALSE, val |-> 0]
      ELSE LET mag == IF Len(d) > 9 THEN Huge ELSE DigitsVal(d, 0)
           IN  [ok |-> TRUE, val |-> IF neg THEN 0 - mag ELSE mag]

RECURSIVE NatStr(_)
NatStr(n) == IF n < 10 THEN <<Digits[n + 1]>>
             ELSE NatStr(n \div 10) \o <<Digits[(n % 10) + 1]>>

\* the %d verb of fmt.Fprintf
Itoa(n) == IF n < 0 THEN <<"-">> \o NatStr(0 - n) ELSE NatStr(n)

(***************************************************************************)
(* Encoder                                                                 *)
(***************************************************************************)
writeString(s) == <<"+">> \o s \o CRLF

\* writeError with the prefix of a simple string
writeErrorAsStatus(s) == <<"+">> \o s \o CRLF

writeError(s) == <<"-">> \o s \o CRLF

writeInteger(i) == <<":">> \o Itoa(i) \o CRLF

writeBulkString(s) == <<"$">> \o Itoa(Len(s)) \o CRLF \o s \o CRLF

RECURSIVE writeBulks(_)
writeBulks(arr) ==
  IF arr = <<>> THEN <<>>
  ELSE writeBulkString(Head(arr)) \o writeBulks(Tail(arr))

writeArray(arr) == <<"*">> \o Itoa(Len(arr)) \o CRLF \o writeBulks(arr)

(***************************************************************************)
(* String literals of the program                                          *)
(***************************************************************************)
PING ==
  <<"P", "I", "N", "G">>

SET ==
  <<"S", "E", "T">>

GET ==
  <<"G", "E", "T">>

DEL ==
  <<"D", "E", "L">>

HELP ==
  <<"H", "E", "L", "P">>

SELECT ==
  <<"S", "E", "L", "E", "C", "T">>

CONFIG ==
  <<"C", "O", "N", "F", "I", "G">>

PONG ==
  <<"P", "O", "N", "G">>

OK ==
  <<"O", "K">>

Nil ==
  <<"n", "i", "l">>

False ==
  <<"f", "a", "l", "s", "e">>

True ==
  <<"t", "r", "u", "e">>

Star ==
  <<"*">>

\* config.go:254
ErrSet ==
  <<"w", "r", "o", "n", "g", SP, "n", "u", "m", "b", "e", "r", SP, "o", "f",
  SP, "a", "r", "g", "u", "m", "e", "n", "t", "s", SP, "f", "o", "r", SP,
  "'", "s", "e", "t", "'", SP, "c", "o", "m", "m", "a", "n", "d">>

\* config.go:262
ErrGet ==
  <<"w", "r", "o", "n", "g", SP, "n", "u", "m", "b", "e", "r", SP, "o", "f",
  SP, "a", "r", "g", "u", "m", "e", "n", "t", "s", SP, "f", "o", "r", SP,
  "'", "g", "e", "t", "'", SP, "c", "o", "m", "m", "a", "n", "d">>

\* config.go:270
ErrDel ==
  <<"w", "r", "o", "n", "g", SP, "n", "u", "m", "b", "e", "r", SP, "o", "f",
  SP, "a", "r", "g", "u", "m", "e", "n", "t", "s", SP, "f", "o", "r", SP,
  "'", "d", "e", "l", "'", SP, "c", "o", "m", "m", "a", "n", "d">>

\* config.go:296
ErrSelect ==
  <<"w", "r", "o", "n", "g", SP, "n", "u", "m", "b", "e", "r", SP, "o", "f",
  SP, "a", "r", "g", "u", "m", "e", "n", "t", "s", SP, "f", "o", "r", SP,
  "'", "s", "e", "l", "e", "c", "t", "'", SP, "c", "o", "m", "m", "a", "n",
  "d">>

\* config.go:304
ErrConfig ==
  <<"w", "r", "o", "n", "g", SP, "n", "u", "m", "b", "e", "r", SP, "o", "f",
  SP, "a", "r", "g", "u", "m", "e", "n", "t", "s", SP, "f", "o", "r", SP,
  "'", "c", "o", "n", "f", "i", "g", "'", SP, "c", "o", "m", "m", "a", "n",
  "d">>

\* config.go:312
ErrConfigGet ==
  <<"w", "r", "o", "n", "g", SP, "n", "u", "m", "b", "e", "r", SP, "o", "f",
  SP, "a", "r", "g", "u", "m", "e", "n", "t", "s", SP, "f", "o", "r", SP,
  "'", "c", "o", "n", "f", "i", "g", SP, "g", "e", "t", "'", SP, "c", "o",
  "m", "m", "a", "n", "d">>

\* config.go:336
ErrConfigSet ==
  <<"w", "r", "o", "n", "g", SP, "n", "u", "m", "b", "e", "r", SP, "o", "f",
  SP, "a", "r", "g", "u", "m", "e", "n", "t", "s", SP, "f", "o", "r", SP,
  "'", "c", "o", "n", "f", "i", "g", SP, "s", "e", "t", "'", SP, "c", "o",
  "m", "m", "a", "n", "d">>

\* config.go:344
ErrConfigOp ==
  <<"u", "n", "s", "u", "p", "p", "o", "r", "t", "e", "d", SP, "c", "o",
  "n", "f", "i", "g", SP, "o", "p", "e", "r", "a", "t", "i", "o", "n">>

\* config.go:348
ErrUnknownPre ==
  <<"u", "n", "k", "n", "o", "w", "n", SP, "c", "o", "m", "m", "a", "n",
  "d", SP, "'">>

\* config.go:283-290
helpText ==
  <<"A", "v", "a", "i", "l", "a", "b", "l", "e", SP, "c", "o", "m", "m",
  "a", "n", "d", "s", ":", CR, LF, "P", "I", "N", "G", SP, "-", SP, "T",
  "e", "s", "t", SP, "c", "o", "n", "n", "e", "c", "t", "i", "o", "n", CR,
  LF, "S", "E", "T", SP, "k", "e", "y", SP, "v", "a", "l", "u", "e", SP,
  "-", SP, "S", "e", "t", SP, "a", SP, "k", "e", "y", SP, "v", "a", "l",
  "u", "e", SP, "p", "a", "i", "r", CR, LF, "G", "E", "T", SP, "k", "e",
  "y", SP, "-", SP, "G", "e", "t", SP, "a", SP, "k", "e", "y", SP, "v", "a",
  "l", "u", "e", SP, "p", "a", "i", "r", CR, LF, "D", "E", "L", SP, "k",
  "e", "y", SP, "-", SP, "D", "e", "l", "e", "t", "e", SP, "a", SP, "k",
  "e", "y", SP, "v", "a", "l", "u", "e", SP, "p", "a", "i", "r", CR, LF,
  "C", "O", "N", "F", "I", "G", SP, "G", "E", "T", "/", "S", "E", "T", SP,
  "-", SP, "V", "i", "e", "w", SP, "o", "r", SP, "m", "o", "d", "i", "f",
  "y", SP, "c", "o", "n", "f", "i", "g", "u", "r", "a", "t", "i", "o", "n",
  CR, LF, "S", "E", "L", "E", "C", "T", SP, "d", "b", SP, "-", SP, "S", "e",
  "l", "e", "c", "t", SP, "a", SP, "l", "o", "g", "i", "c", "a", "l", SP,
  "d", "a", "t", "a", "b", "a", "s", "e", CR, LF, "H", "E", "L", "P", SP,
  "-", SP, "S", "h", "o", "w", SP, "t", "h", "i", "s", SP, "h", "e", "l",
  "p">>

port ==
  <<"p", "o", "r", "t">>

bind ==
  <<"b", "i", "n", "d">>

max_clients ==
  <<"m", "a", "x", "_", "c", "l", "i", "e", "n", "t", "s">>

timeout ==
  <<"t", "i", "m", "e", "o", "u", "t">>

portDefault ==
  <<"6", "3", "7", "9">>

bindDefault ==
  <<"0", ".", "0", ".", "0", ".", "0">>

max_clientsDefault ==
  <<"1", "0", "0", "0", "0">>

timeoutDefault ==
  <<"0">>


(***************************************************************************)
(* Decoder.  A bufio.Reader over a connection is the bytes that have       *)
(* arrived and not been consumed (buf) and whether the peer has closed     *)
(* its side (eof).  A read that needs more bytes than have arrived blocks  *)
(* while the peer is open and fails once it has closed.  A parse result    *)
(* is [st, cmd, rest]: st is "ok", "block" (the goroutine waits in the     *)
(* read), "eof" (the error is io.EOF) or "err" (any other error).          *)
(***************************************************************************)
Starved(eof) == IF eof THEN "eof" ELSE "block"

Fail(st) == [st |-> st, cmd |-> <<>>, rest |-> <<>>]

\* index of the first '\n' of buf, 0 when there is none
LineEnd(buf) ==
  LET idx == {i \in 1..Len(buf) : buf[i] = LF}
  IN  IF idx = {} THEN 0 ELSE CHOOSE i \in idx : \A j \in idx : i <= j

\* parseBulkString that takes the line after the length line as the string
parseBulkStringLine(buf, eof) ==
  IF buf = <<>> THEN Fail(Starved(eof))
  ELSE
    LET b1 == Tail(buf)
        e == LineEnd(b1)
    IN  IF e = 0 THEN Fail(Starved(eof))
        ELSE
          LET b2 == Drop(b1, e)
              e2 == LineEnd(b2)
          IN  IF e2 = 0 THEN Fail(Starved(eof))
              ELSE [st |-> "ok", cmd |-> TrimSpace(SubSeq(b2, 1, e2)),
                    rest |-> Drop(b2, e2)]

\* parseBulkString: buf starts at the byte the function reads and drops
parseBulkString(buf, eof) ==
  IF buf = <<>> THEN Fail(Starved(eof))
  ELSE
    LET b1 == Tail(buf)
        e == LineEnd(b1)
    IN  IF e = 0 THEN Fail(Starved(eof))
        ELSE
          LET length == Atoi(TrimSpace(SubSeq(b1, 1, e)))
              b2 == Drop(b1, e)
          IN  IF ~length.ok THEN Fail("err")
              ELSE IF length.val < 0
              THEN [st |-> "ok", cmd |-> <<>>, rest |-> b2]
              ELSE IF Len(b2) >= length.val + 2
              THEN [st |-> "ok", cmd |-> SubSeq(b2, 1, length.val),
                    rest |-> Drop(b2, length.val + 2)]
              ELSE IF ~eof THEN Fail("block")
              ELSE IF b2 = <<>> THEN Fail("eof")
              ELSE Fail("err")

RECURSIVE parseElements(_, _, _, _)
\* the loop of parseArray, with count - i elements left to read
parseElements(buf, eof, left, result) ==
  IF left = 0 THEN [st |-> "ok", cmd |-> result, rest |-> buf]
  ELSE IF buf = <<>> THEN Fail(Starved(eof))
  ELSE IF Head(buf) # "$" THEN Fail("err")
  ELSE LET s == parseBulkString(buf, eof)
       IN  IF s.st # "ok" THEN Fail(s.st)
           ELSE parseElements(s.rest, eof, left - 1, Append(result, s.cmd))

\* parseArray that takes a negative count for an error
parseArrayStrict(buf, eof) ==
  LET e == LineEnd(buf)
  IN  IF e = 0 THEN Fail(Starved(eof))
      ELSE
        LET count == Atoi(TrimSpace(SubSeq(buf, 1, e)))
        IN  IF ~count.ok \/ count.val < 0 THEN Fail("err")
            ELSE parseElements(Drop(buf, e), eof, count.val, <<>>)

\* parseArray: buf starts after the '*'
parseArray(buf, eof) ==
  LET e == LineEnd(buf)
  IN  IF e = 0 THEN Fail(Starved(eof))
      ELSE
        LET count == Atoi(TrimSpace(SubSeq(buf, 1, e)))
        IN  IF ~count.ok THEN Fail("err")
            ELSE IF count.val < 0
            THEN [st |-> "ok", cmd |-> <<>>, rest |-> Drop(buf, e)]
            ELSE parseElements(Drop(buf, e), eof, count.val, <<>>)

parseRESP(buf, eof) ==
  IF buf = <<>> THEN Fail(Starved(eof))
  ELSE
    LET b == Head(buf)
        r == Tail(buf)
    IN  IF b = "*" THEN parseArray(r, eof)
        ELSE IF b = "$"
        THEN LET s == parseBulkString(r, eof)
             IN  IF s.st # "ok" THEN Fail(s.st)
                 ELSE [st |-> "ok", cmd |-> <<s.cmd>>, rest |-> s.rest]
        ELSE LET e == LineEnd(r)
             IN  IF e = 0 THEN Fail(Starved(eof))
                 ELSE [st |-> "ok",
                       cmd |-> Fields(<<b>> \o TrimSpace(SubSeq(r, 1, e))),
                       rest |-> Drop(r, e)]

(***************************************************************************)
(* The store and the connections                                           *)
(***************************************************************************)
\* connections the listener can accept
NumConns == 2

\* frames the clients send in all, for each of the specifications below
MaxSentKV == 3
MaxSentRW == 3
MaxSentCfg == 2
MaxSentErr == 2
MaxSentProto == 2

Conns == 1..NumConns

VARIABLES
  data,      \* FluxDB.data
  config,    \* FluxDB.config
  writer,    \* the goroutine holding FluxDB.mu for writing, 0 when none
  readers,   \* the goroutines holding FluxDB.mu for reading
  wrData,    \* the write of data that has begun and not finished
  wrConfig,  \* the write of config that has begun and not finished
  fatal,     \* the runtime has stopped the process
  pc,        \* where each connection's goroutine is
  inbuf,     \* bytes that arrived on the connection and are not yet read
  eof,       \* the client has closed its side
  cmd,       \* the command being processed
  idx,       \* position of the loop over the keys of DEL
  count,     \* count of DEL
  ret,       \* what the store operation in progress returns
  result,    \* result of CONFIG GET
  visited,   \* keys the range over config has produced
  snapshot,  \* keys config held when the range began
  out,       \* frames written to the connection
  sent,      \* frames sent by all clients
  lastSet,   \* history: per key, the value of the last SET since its last DEL
  removed,   \* history: keys present when the DEL in progress deleted them
  lastConfigSet,  \* history: per name, the value of its last CONFIG SET
  instants   \* history: the values config has had since the range began

vars == <<data, config, writer, readers, wrData, wrConfig, fatal, pc, inbuf,
          eof, cmd, idx, count, ret, result, visited, snapshot, out, sent,
          lastSet, removed, lastConfigSet, instants>>

store == <<data, config>>
mu == <<writer, readers>>
writes == <<wrData, wrConfig>>
stream == <<inbuf, eof, sent>>
locals == <<cmd, idx, count, ret, result, visited, snapshot>>
history == <<lastSet, removed, lastConfigSet, instants>>

EmptyMap == [k \in {} |-> <<>>]

\* m[k] = v
MapSet(m, k, v) == [x \in DOMAIN m \cup {k} |-> IF x = k THEN v ELSE m[x]]

\* delete(m, k)
MapDelete(m, k) == [x \in DOMAIN m \ {k} |-> m[x]]

NoWrite == [by |-> 0, key |-> <<>>, put |-> FALSE, val |-> <<>>]

Prefixes(v) == {SubSeq(v, 1, n) : n \in 0..Len(v)}

\* val, exists := m[k], as [val, ok]
Lookup(m, k) ==
  IF k \in DOMAIN m THEN [val |-> m[k], ok |-> TRUE, fatal |-> FALSE]
  ELSE [val |-> <<>>, ok |-> FALSE, fatal |-> FALSE]

\* What a read of m[k] can give while the write w of m is under way: without
\* a write, the entry; with one, a data race, whose outcomes are the entry
\* before or after the write, a part of the value being stored, or the
\* runtime's "concurrent map read and map write", which ends the process.
Lookups(m, k, w) ==
  IF w.by = 0 THEN {Lookup(m, k)}
  ELSE {Lookup(m, k), [val |-> <<>>, ok |-> FALSE, fatal |-> TRUE]}
       \cup (IF w.key # k THEN {}
             ELSE IF w.put
             THEN {[val |-> p, ok |-> TRUE, fatal |-> FALSE] : p \in Prefixes(w.val)}
             ELSE {[val |-> <<>>, ok |-> FALSE, fatal |-> FALSE]})

\* sync.RWMutex.Lock returns
CanLock(c) == writer = 0 /\ readers = {}

\* sync.RWMutex.RLock returns
CanRLock(c) == writer = 0

Init ==
  /\ data = EmptyMap
  /\ config = (port :> portDefault) @@ (bind :> bindDefault)
                @@ (max_clients :> max_clientsDefault)
                @@ (timeout :> timeoutDefault)
  /\ writer = 0
  /\ readers = {}
  /\ wrData = NoWrite
  /\ wrConfig = NoWrite
  /\ fatal = FALSE
  /\ pc = [c \in Conns |-> "idle"]
  /\ inbuf = [c \in Conns |-> <<>>]
  /\ eof = [c \in Conns |-> FALSE]
  /\ cmd = [c \in Conns |-> <<>>]
  /\ idx = [c \in Conns |-> 0]
  /\ count = [c \in Conns |-> 0]
  /\ ret = [c \in Conns |-> <<>>]
  /\ result = [c \in Conns |-> <<>>]
  /\ visited = [c \in Conns |-> {}]
  /\ snapshot = [c \in Conns |-> {}]
  /\ out = [c \in Conns |-> <<>>]
  /\ sent = 0
  /\ lastSet = EmptyMap
  /\ removed = [c \in Conns |-> 0]
  /\ lastConfigSet = EmptyMap
  /\ instants = [c \in Conns |-> {}]

\* the goroutine of c is at label p and the process is alive
At(c, p) == ~fatal /\ pc[c] = p

Goto(c, p) == pc' = [pc EXCEPT ![c] = p]

\* processCommand writes its reply and returns to the loop of HandleConnection
Return(c, frame) ==
  /\ out' = [out EXCEPT ![c] = Append(@, frame)]
  /\ Goto(c, "parse")
  /\ cmd' = [cmd EXCEPT ![c] = <<>>]
  /\ idx' = [idx EXCEPT ![c] = 0]
  /\ count' = [count EXCEPT ![c] = 0]
  /\ ret' = [ret EXCEPT ![c] = <<>>]
  /\ result' = [result EXCEPT ![c] = <<>>]
  /\ visited' = [visited EXCEPT ![c] = {}]
  /\ snapshot' = [snapshot EXCEPT ![c] = {}]
  /\ removed' = [removed EXCEPT ![c] = 0]
  /\ instants' = [instants EXCEPT ![c] = {}]

\* main: listener.Accept, go fluxdb.HandleConnection(conn); the connections
\* are numbered in the order in which the listener accepts them
Accept(c) ==
  /\ At(c, "idle")
  /\ \A d \in 1..(c - 1) : pc[d] # "idle"
  /\ Goto(c, "parse")
  /\ UNCHANGED <<store, mu, writes, fatal, stream, locals, out, history>>

\* The client writes the bytes of f, one of at most limit frames the clients
\* send.  The goroutine reads the connection only inside parseRESP, so bytes
\* that arrive while it processes a command are the same to it as bytes that
\* arrive when it is back in parseRESP.
Send(c, f, limit) ==
  /\ At(c, "parse")
  /\ ~eof[c]
  /\ sent < limit
  /\ inbuf' = [inbuf EXCEPT ![c] = @ \o f]
  /\ sent' = sent + 1
  /\ UNCHANGED <<store, mu, writes, fatal, pc, eof, locals, out, history>>

\* the client closes the connection
Hangup(c) ==
  /\ At(c, "parse")
  /\ ~eof[c]
  /\ eof' = [eof EXCEPT ![c] = TRUE]
  /\ UNCHANGED <<store, mu, writes, fatal, pc, inbuf, sent, locals, out, history>>

\* HandleConnection: parseRESP returns; an error ends the loop and the
\* deferred conn.Close runs, an empty command goes round the loop
Parse(c) ==
  /\ At(c, "parse")
  /\ LET r == parseRESP(inbuf[c], eof[c])
     IN  /\ r.st # "block"
         /\ IF r.st = "ok"
            THEN /\ inbuf' = [inbuf EXCEPT ![c] = r.rest]
                 /\ cmd' = [cmd EXCEPT ![c] = r.cmd]
                 /\ Goto(c, IF Len(r.cmd) = 0 THEN "parse" ELSE "dispatch")
            ELSE /\ Goto(c, "closed")
                 /\ UNCHANGED <<inbuf, cmd>>
  /\ UNCHANGED <<store, mu, writes, fatal, eof, sent, idx, count, ret, result,
                 visited, snapshot, out, history>>

\* processCommand up to its first call of the store: either the reply it
\* writes before it returns, or the store operation it calls
Route(cm) ==
  LET command == ToUpper(cm[1])
      args == Tail(cm)
      Reply(frame) == [to |-> "parse", reply |-> <<frame>>]
      Call(p) == [to |-> p, reply |-> <<>>]
  IN  CASE command = PING ->
             IF Len(args) = 0 THEN Reply(writeString(PONG))
             ELSE Reply(writeBulkString(args[1]))
        [] command = SET ->
             IF Len(args) < 2 THEN Reply(writeError(ErrSet))
             ELSE Call("Set_Lock")
        [] command = GET ->
             IF Len(args) < 1 THEN Reply(writeError(ErrGet))
             ELSE Call("Get_RLock")
        [] command = DEL ->
             IF Len(args) < 1 THEN Reply(writeError(ErrDel))
             ELSE Call("Delete_Lock")
        [] command = HELP -> Reply(writeBulkString(helpText))
        [] command = SELECT ->
             IF Len(args) < 1 THEN Reply(writeError(ErrSelect))
             ELSE Reply(writeString(OK))
        [] command = CONFIG ->
             IF Len(args) < 1 THEN Reply(writeError(ErrConfig))
             ELSE LET subcommand == ToUpper(args[1])
                  IN  CASE subcommand = GET ->
                             IF Len(args) < 2 THEN Reply(writeError(ErrConfigGet))
                             ELSE IF args[2] = Star THEN Call("range")
                             ELSE Call("GetConfig_RLock")
                        [] subcommand = SET ->
                             IF Len(args) < 3 THEN Reply(writeError(ErrConfigSet))
                             ELSE Call("SetConfig_Lock")
                        [] OTHER -> Reply(writeError(ErrConfigOp))
        [] OTHER -> Reply(writeError(ErrUnknownPre \o command \o <<"'">>))

Dispatch(c) ==
  /\ At(c, "dispatch")
  /\ LET r == Route(cmd[c])
     IN  IF r.to = "parse"
         THEN Return(c, r.reply[1])
         ELSE /\ Goto(c, r.to)
              /\ idx' = [idx EXCEPT ![c] = 1]
              /\ snapshot' = [snapshot EXCEPT ![c] =
                                IF r.to = "range" THEN DOMAIN config ELSE {}]
              /\ instants' = [instants EXCEPT ![c] =
                                IF r.to = "range" THEN {config} ELSE {}]
              /\ UNCHANGED <<cmd, count, ret, result, visited, out, removed>>
  /\ UNCHANGED <<store, mu, writes, fatal, stream, lastSet, lastConfigSet>>

(***************************************************************************)
(* Set                                                                     *)
(***************************************************************************)
SetLock(c) ==
  /\ At(c, "Set_Lock")
  /\ CanLock(c)
  /\ writer' = c
  /\ Goto(c, "Set_cs")
  /\ UNCHANGED <<store, readers, writes, fatal, stream, locals, out, history>>

\* Set without the test of f.data[key]
SetCheckOverwrite(c) ==
  /\ At(c, "Set_cs")
  /\ lastSet' = MapSet(lastSet, cmd[c][2], cmd[c][3])
  /\ wrData' = [by |-> c, key |-> cmd[c][2], put |-> TRUE, val |-> cmd[c][3]]
  /\ Goto(c, "Set_write")
  /\ UNCHANGED <<store, mu, wrConfig, fatal, stream, cmd, idx, count, ret,
                 result, visited, snapshot, out, removed, lastConfigSet,
                 instants>>

\* the test of f.data[key], and the start of the assignment when it is absent
SetCheck(c) ==
  /\ At(c, "Set_cs")
  /\ LET key == cmd[c][2]
         value == cmd[c][3]
     IN  /\ lastSet' = MapSet(lastSet, key, value)
         /\ IF key \in DOMAIN data
            THEN /\ ret' = [ret EXCEPT ![c] = False]
                 /\ Goto(c, "Set_Unlock")
                 /\ UNCHANGED wrData
            ELSE /\ wrData' = [by |-> c, key |-> key, put |-> TRUE, val |-> value]
                 /\ Goto(c, "Set_write")
                 /\ UNCHANGED ret
  /\ UNCHANGED <<store, mu, wrConfig, fatal, stream, cmd, idx, count, result,
                 visited, snapshot, out, removed, lastConfigSet, instants>>

\* f.data[key] = value is done
SetWrite(c) ==
  /\ At(c, "Set_write")
  /\ data' = MapSet(data, cmd[c][2], cmd[c][3])
  /\ wrData' = NoWrite
  /\ ret' = [ret EXCEPT ![c] = OK]
  /\ Goto(c, "Set_Unlock")
  /\ UNCHANGED <<config, mu, wrConfig, fatal, stream, cmd, idx, count, result,
                 visited, snapshot, out, history>>

\* Set that returns from the test of the key without the Unlock
SetUnlockLeak(c) ==
  /\ At(c, "Set_Unlock")
  /\ writer' = IF ret[c] = False THEN writer ELSE 0
  /\ Return(c, writeString(ret[c]))
  /\ UNCHANGED <<store, readers, writes, fatal, stream, lastSet, lastConfigSet>>

\* the deferred f.mu.Unlock, then writeString(conn, result)
SetUnlock(c) ==
  /\ At(c, "Set_Unlock")
  /\ writer' = 0
  /\ Return(c, writeString(ret[c]))
  /\ UNCHANGED <<store, readers, writes, fatal, stream, lastSet, lastConfigSet>>

(***************************************************************************)
(* Get                                                                     *)
(***************************************************************************)
\* Get that enters its section without waiting for the writer to leave
GetRLockNoWait(c) ==
  /\ At(c, "Get_RLock")
  /\ readers' = readers \cup {c}
  /\ Goto(c, "Get_cs")
  /\ UNCHANGED <<store, writer, writes, fatal, stream, locals, out, history>>

GetRLock(c) ==
  /\ At(c, "Get_RLock")
  /\ CanRLock(c)
  /\ readers' = readers \cup {c}
  /\ Goto(c, "Get_cs")
  /\ UNCHANGED <<store, writer, writes, fatal, stream, locals, out, history>>

GetRead(c) ==
  /\ At(c, "Get_cs")
  /\ \E r \in Lookups(data, cmd[c][2], wrData) :
       IF r.fatal
       THEN fatal' = TRUE /\ UNCHANGED <<pc, ret>>
       ELSE /\ ret' = [ret EXCEPT ![c] = IF r.ok THEN r.val ELSE Nil]
            /\ Goto(c, "Get_RUnlock")
            /\ UNCHANGED fatal
  /\ UNCHANGED <<store, mu, writes, stream, cmd, idx, count, result, visited,
                 snapshot, out, history>>

\* the reply of GET: writeBulkString(conn, result)
GetReply(c) == writeBulkString(ret[c])

\* the deferred f.mu.RUnlock, then the reply
GetRUnlock(c) ==
  /\ At(c, "Get_RUnlock")
  /\ readers' = readers \ {c}
  /\ Return(c, GetReply(c))
  /\ UNCHANGED <<store, writer, writes, fatal, stream, lastSet, lastConfigSet>>

(***************************************************************************)
(* Delete, called once for each key of DEL                                 *)
(***************************************************************************)
DeleteLock(c) ==
  /\ At(c, "Delete_Lock")
  /\ CanLock(c)
  /\ writer' = c
  /\ Goto(c, "Delete_cs")
  /\ UNCHANGED <<store, readers, writes, fatal, stream, locals, out, history>>

\* delete(f.data, key) begins
DeleteBegin(c) ==
  /\ At(c, "Delete_cs")
  /\ wrData' = [by |-> c, key |-> cmd[c][idx[c] + 1], put |-> FALSE, val |-> <<>>]
  /\ Goto(c, "Delete_write")
  /\ UNCHANGED <<store, mu, wrConfig, fatal, stream, locals, out, history>>

\* delete(f.data, key) is done
DeleteWrite(c) ==
  /\ At(c, "Delete_write")
  /\ LET key == cmd[c][idx[c] + 1]
     IN  /\ data' = MapDelete(data, key)
         /\ lastSet' = MapDelete(lastSet, key)
         /\ removed' = [removed EXCEPT ![c] = @ + IF key \in DOMAIN data THEN 1 ELSE 0]
  /\ wrData' = NoWrite
  /\ ret' = [ret EXCEPT ![c] = OK]
  /\ Goto(c, "Delete_Unlock")
  /\ UNCHANGED <<config, mu, wrConfig, fatal, stream, cmd, idx, count, result,
                 visited, snapshot, out, lastConfigSet, instants>>

\* count that adds one for every key Delete was called for
CountAfterOK(c) == count[c] + IF ret[c] = OK THEN 1 ELSE 0

\* count once Delete has returned: deleted == "true" adds one
CountAfter(c) == count[c] + IF ret[c] = True THEN 1 ELSE 0

\* the reply of DEL: writeInteger(conn, count)
DelReply(c) == writeInteger(CountAfter(c))

\* DEL that keeps the lock from one key to the next
DeleteUnlockBatch(c) ==
  /\ At(c, "Delete_Unlock")
  /\ IF idx[c] < Len(cmd[c]) - 1
     THEN /\ idx' = [idx EXCEPT ![c] = @ + 1]
          /\ count' = [count EXCEPT ![c] = CountAfter(c)]
          /\ ret' = [ret EXCEPT ![c] = <<>>]
          /\ Goto(c, "Delete_Lock")
          /\ UNCHANGED <<writer, cmd, result, visited, snapshot, out, removed,
                         instants>>
     ELSE writer' = 0 /\ Return(c, DelReply(c))
  /\ UNCHANGED <<store, readers, writes, fatal, stream, lastSet, lastConfigSet>>

\* DEL that writes the count after each key
DeleteUnlockEach(c) ==
  /\ At(c, "Delete_Unlock")
  /\ writer' = 0
  /\ IF idx[c] < Len(cmd[c]) - 1
     THEN /\ idx' = [idx EXCEPT ![c] = @ + 1]
          /\ count' = [count EXCEPT ![c] = CountAfter(c)]
          /\ ret' = [ret EXCEPT ![c] = <<>>]
          /\ out' = [out EXCEPT ![c] = Append(@, DelReply(c))]
          /\ Goto(c, "Delete_Lock")
          /\ UNCHANGED <<cmd, result, visited, snapshot, removed, instants>>
     ELSE Return(c, DelReply(c))
  /\ UNCHANGED <<store, readers, writes, fatal, stream, lastSet, lastConfigSet>>

\* the deferred f.mu.Unlock, the test of what Delete returned, and either the
\* next key or the reply
DeleteUnlock(c) ==
  /\ At(c, "Delete_Unlock")
  /\ writer' = 0
  /\ IF idx[c] < Len(cmd[c]) - 1
     THEN /\ idx' = [idx EXCEPT ![c] = @ + 1]
          /\ count' = [count EXCEPT ![c] = CountAfter(c)]
          /\ ret' = [ret EXCEPT ![c] = <<>>]
          /\ Goto(c, "Delete_Lock")
          /\ UNCHANGED <<cmd, result, visited, snapshot, out, removed, instants>>
     ELSE Return(c, DelReply(c))
  /\ UNCHANGED <<store, readers, writes, fatal, stream, lastSet, lastConfigSet>>

(***************************************************************************)
(* SetConfig                                                               *)
(***************************************************************************)
SetConfigLock(c) ==
  /\ At(c, "SetConfig_Lock")
  /\ CanLock(c)
  /\ writer' = c
  /\ Goto(c, "SetConfig_cs")
  /\ UNCHANGED <<store, readers, writes, fatal, stream, locals, out, history>>

\* f.config[key] = value begins
SetConfigBegin(c) ==
  /\ At(c, "SetConfig_cs")
  /\ wrConfig' = [by |-> c, key |-> cmd[c][3], put |-> TRUE, val |-> cmd[c][4]]
  /\ Goto(c, "SetConfig_write")
  /\ UNCHANGED <<store, mu, wrData, fatal, stream, locals, out, history>>

\* SetConfig that stores into data
SetConfigWriteData(c) ==
  /\ At(c, "SetConfig_write")
  /\ data' = MapSet(data, cmd[c][3], cmd[c][4])
  /\ wrConfig' = NoWrite
  /\ ret' = [ret EXCEPT ![c] = OK]
  /\ Goto(c, "SetConfig_Unlock")
  /\ UNCHANGED <<config, mu, wrData, fatal, stream, cmd, idx, count, result,
                 visited, snapshot, out, history>>

\* f.config[key] = value is done
SetConfigWrite(c) ==
  /\ At(c, "SetConfig_write")
  /\ config' = MapSet(config, cmd[c][3], cmd[c][4])
  /\ lastConfigSet' = MapSet(lastConfigSet, cmd[c][3], cmd[c][4])
  /\ instants' = [d \in Conns |->
                    IF pc[d] = "range" THEN instants[d] \cup {config'} ELSE instants[d]]
  /\ wrConfig' = NoWrite
  /\ ret' = [ret EXCEPT ![c] = OK]
  /\ Goto(c, "SetConfig_Unlock")
  /\ UNCHANGED <<data, mu, wrData, fatal, stream, cmd, idx, count, result,
                 visited, snapshot, out, lastSet, removed>>

\* the deferred f.mu.Unlock, then writeString(conn, "OK")
SetConfigUnlock(c) ==
  /\ At(c, "SetConfig_Unlock")
  /\ writer' = 0
  /\ Return(c, writeString(OK))
  /\ UNCHANGED <<store, readers, writes, fatal, stream, lastSet, lastConfigSet>>

(***************************************************************************)
(* GetConfig, called by CONFIG GET with a pattern other than "*"           *)
(***************************************************************************)
GetConfigRLock(c) ==
  /\ At(c, "GetConfig_RLock")
  /\ CanRLock(c)
  /\ readers' = readers \cup {c}
  /\ Goto(c, "GetConfig_cs")
  /\ UNCHANGED <<store, writer, writes, fatal, stream, locals, out, history>>

GetConfigRead(c) ==
  /\ At(c, "GetConfig_cs")
  /\ \E r \in Lookups(config, cmd[c][3], wrConfig) :
       IF r.fatal
       THEN fatal' = TRUE /\ UNCHANGED <<pc, ret>>
       ELSE /\ ret' = [ret EXCEPT ![c] = IF r.ok THEN r.val ELSE Nil]
            /\ Goto(c, "GetConfig_RUnlock")
            /\ UNCHANGED fatal
  /\ UNCHANGED <<store, mu, writes, stream, cmd, idx, count, result, visited,
                 snapshot, out, history>>

\* the reply of CONFIG GET pattern: the pair when GetConfig returned a
\* string other than ""
ConfigGetReply(c) ==
  LET pattern == cmd[c][3]
      val == ret[c]
  IN  writeArray(IF val # <<>> THEN <<pattern, val>> ELSE <<>>)

\* the deferred f.mu.RUnlock, then the reply
GetConfigRUnlock(c) ==
  /\ At(c, "GetConfig_RUnlock")
  /\ readers' = readers \ {c}
  /\ Return(c, ConfigGetReply(c))
  /\ UNCHANGED <<store, writer, writes, fatal, stream, lastSet, lastConfigSet>>

(***************************************************************************)
(* CONFIG GET *: for k, v := range r.config, with no lock taken            *)
(***************************************************************************)
\* keys the range can produce next: those of the map, and the key of a
\* write under way
RangeKeys(c) ==
  (DOMAIN config \cup (IF wrConfig.by = 0 THEN {} ELSE {wrConfig.key}))
    \ visited[c]

\* one iteration: result = append(result, k, v)
RangeNext(c) ==
  /\ At(c, "range")
  /\ \E k \in RangeKeys(c) :
       \E r \in {x \in Lookups(config, k, wrConfig) : x.ok \/ x.fatal} :
         IF r.fatal
         THEN fatal' = TRUE /\ UNCHANGED <<result, visited>>
         ELSE /\ result' = [result EXCEPT ![c] = @ \o <<k, r.val>>]
              /\ visited' = [visited EXCEPT ![c] = @ \cup {k}]
              /\ UNCHANGED fatal
  /\ UNCHANGED <<store, mu, writes, pc, stream, cmd, idx, count, ret, snapshot,
                 out, history>>

\* The range ends, then writeArray(conn, result).  An entry created during
\* the range may be produced or skipped; one that was there is produced.
RangeDone(c) ==
  /\ At(c, "range")
  /\ snapshot[c] \subseteq visited[c]
  /\ Return(c, writeArray(result[c]))
  /\ UNCHANGED <<store, mu, writes, fatal, stream, lastSet, lastConfigSet>>

(***************************************************************************)
(* Clients                                                                 *)
(***************************************************************************)
a == <<"a">>
b == <<"b">>
x == <<"x">>
yz == <<"y", "z">>

\* a client encodes a command as an array of bulk strings
Frames(commands) == {writeArray(cm) : cm \in commands}

KVCommands ==
  { <<SET, a, x>>, <<SET, a, yz>>, <<SET, b, Nil>>, <<SET, a, x, b>>,
    <<GET, a>>, <<GET, b>>, <<DEL, a>>, <<DEL, a, b>> }

RWCommands == { <<SET, a, yz>>, <<GET, a>>, <<DEL, a>> }

CfgCommands ==
  { <<CONFIG, GET, port>>, <<CONFIG, GET, a>>, <<CONFIG, GET, Star>>,
    <<CONFIG, SET, a, x>>, <<CONFIG, SET, a, <<>>>>, <<CONFIG, SET, port, yz>> }

foo == <<"f", "o", "o">>
set == <<"s", "e", "t">>

\* an unknown verb, every verb with too few arguments, and a SET
ErrCommands ==
  { <<foo, a>>, <<SET>>, <<set, a>>, <<GET>>, <<DEL>>, <<SELECT>>, <<CONFIG>>,
    <<CONFIG, GET>>, <<CONFIG, SET>>, <<CONFIG, SET, a>>, <<SET, a, x>> }

\* frames with a length that is no number, a frame cut short, an array
\* element that is no bulk string, and a well-formed SET
ProtoFrames ==
  { <<"*", "a", CR, LF>>,
    <<"*", "1", CR, LF, "$", "x", CR, LF>>,
    <<"*", "1", CR, LF, "$", "5", CR, LF, "a", "b">>,
    <<"*", "1", CR, LF, ":", "1", CR, LF>>,
    <<"$", "x", "4", CR, LF, "P", "I", "N", "G", CR, LF>>,
    writeArray(<<SET, a, x>>) }

Handler(c) ==
  \/ Accept(c)
  \/ Parse(c)
  \/ Dispatch(c)

KVStore(c) ==
  \/ SetLock(c) \/ SetCheck(c) \/ SetWrite(c) \/ SetUnlock(c)
  \/ GetRLock(c) \/ GetRead(c) \/ GetRUnlock(c)
  \/ DeleteLock(c) \/ DeleteBegin(c) \/ DeleteWrite(c) \/ DeleteUnlock(c)

\* clients that send SET, GET and DEL, with too many arguments too
NextKV ==
  \E c \in Conns :
    \/ \E f \in Frames(KVCommands) : Send(c, f, MaxSentKV)
    \/ Handler(c)
    \/ KVStore(c)

SpecKV == Init /\ [][NextKV]_vars

\* clients that write, read and delete one key
NextRW ==
  \E c \in Conns :
    \/ \E f \in Frames(RWCommands) : Send(c, f, MaxSentRW)
    \/ Handler(c)
    \/ KVStore(c)

SpecRW == Init /\ [][NextRW]_vars

ConfigStore(c) ==
  \/ SetConfigLock(c) \/ SetConfigBegin(c) \/ SetConfigWrite(c)
  \/ SetConfigUnlock(c)
  \/ GetConfigRLock(c) \/ GetConfigRead(c) \/ GetConfigRUnlock(c)
  \/ RangeNext(c) \/ RangeDone(c)

\* clients that send CONFIG GET and CONFIG SET
NextCfg ==
  \E c \in Conns :
    \/ \E f \in Frames(CfgCommands) : Send(c, f, MaxSentCfg)
    \/ Handler(c)
    \/ ConfigStore(c)

SpecCfg == Init /\ [][NextCfg]_vars

\* clients that send commands the dispatcher refuses
NextErr ==
  \E c \in Conns :
    \/ \E f \in Frames(ErrCommands) : Send(c, f, MaxSentErr)
    \/ Handler(c)
    \/ SetLock(c) \/ SetCheck(c) \/ SetWrite(c) \/ SetUnlock(c)

SpecErr == Init /\ [][NextErr]_vars

\* clients that send frames the decoder refuses, and may hang up
NextProto ==
  \E c \in Conns :
    \/ \E f \in ProtoFrames : Send(c, f, MaxSentProto)
    \/ Hangup(c)
    \/ Handler(c)
    \/ SetLock(c) \/ SetCheck(c) \/ SetWrite(c) \/ SetUnlock(c)

SpecProto == Init /\ [][NextProto]_vars

(***************************************************************************)
(* Claims about SET, GET and DEL                                           *)
(***************************************************************************)
Last(s) == s[Len(s)]

IsErrorFrame(f) ==
  /\ Len(f) >= 3
  /\ f[1] = "-"
  /\ SubSeq(f, Len(f) - 1, Len(f)) = CRLF

\* the null bulk string: length -1 and no body
NullBulk == <<"$", "-", "1", CR, LF>>

\* C1: when SET k v was the last command to touch k (lastSet[k] = v), the
\* reply of GET k carries exactly v, whatever k held before the SET.
C1_SetThenGet ==
  \A c \in Conns :
    (pc[c] = "Get_RUnlock" /\ cmd[c][2] \in DOMAIN lastSet)
      => GetReply(c) = writeBulkString(lastSet[cmd[c][2]])

\* C2: GET of a key that is not in the store replies with the null bulk
\* string, which is the reply of GET for no key that holds a string.
C2_GetAbsentIsNull ==
  \A c \in Conns :
    (pc[c] = "Get_RUnlock" /\ cmd[c][2] \notin DOMAIN data)
      => /\ GetReply(c) = NullBulk
         /\ \A v \in {Nil, <<>>, x, yz} : GetReply(c) # writeBulkString(v)

\* C3: the integer DEL replies with is the number of its keys that were in
\* the store when it deleted them.
C3_DelCountsRemoved ==
  \A c \in Conns :
    (pc[c] = "Delete_Unlock" /\ idx[c] = Len(cmd[c]) - 1)
      => DelReply(c) = writeInteger(removed[c])

\* C6: no reader of data is inside its section together with a writer, no
\* read happens while a write is under way, and what Get returns is the
\* value the key holds, in full, or the absent result.
InWrite(c) ==
  pc[c] \in {"Set_cs", "Set_write", "Set_Unlock",
             "Delete_cs", "Delete_write", "Delete_Unlock"}

InRead(c) == pc[c] \in {"Get_cs", "Get_RUnlock"}

C6_NoPartialRead ==
  \A c \in Conns :
    /\ InRead(c) => c \in readers /\ wrData.by = 0 /\ \A d \in Conns : ~InWrite(d)
    /\ InWrite(c) => writer = c /\ \A d \in Conns \ {c} : ~InWrite(d)
    /\ pc[c] = "Get_RUnlock" =>
         ret[c] = IF cmd[c][2] \in DOMAIN data THEN data[cmd[c][2]] ELSE Nil

\* a GET holds the read lock, having found the key absent, while the SET of
\* another connection waits for the lock
C6_Witness ==
  \E c, d \in Conns :
    /\ c # d
    /\ pc[c] = "Get_RUnlock" /\ ret[c] = Nil
    /\ pc[d] = "Set_Lock" /\ cmd[d][2] = cmd[c][2]

\* the arguments the table of verbs asks for
ArityOK(cm) ==
  LET verb == ToUpper(cm[1])
      n == Len(cm) - 1
  IN  CASE verb = PING -> n \in {0, 1}
        [] verb = SET -> n = 2
        [] verb = GET -> n = 1
        [] verb = DEL -> n >= 1
        [] verb = SELECT -> n = 1
        [] verb = HELP -> n = 0
        [] verb = CONFIG ->
             IF n = 0 THEN FALSE
             ELSE CASE ToUpper(cm[2]) = GET -> n = 2
                    [] ToUpper(cm[2]) = SET -> n = 3
                    [] OTHER -> TRUE
        [] OTHER -> TRUE

\* c leaves processCommand's dispatch in this step
Dispatched(c) == pc[c] = "dispatch" /\ pc'[c] # "dispatch"

\* the step writes one frame to c, an error, and returns to the loop
ErrorReplied(c) ==
  /\ Len(out'[c]) = Len(out[c]) + 1
  /\ SubSeq(out'[c], 1, Len(out[c])) = out[c]
  /\ IsErrorFrame(Last(out'[c]))
  /\ pc'[c] = "parse"
  /\ inbuf'[c] = inbuf[c]

\* C8: a command with a number of arguments other than the one its verb
\* asks for, too many included, is answered with an error frame and no
\* store operation is called for it.
C8_ArityChecked ==
  [][\A c \in Conns :
       (Dispatched(c) /\ ~ArityOK(cmd[c]))
         => ErrorReplied(c) /\ data' = data /\ config' = config]_vars

(***************************************************************************)
(* Claims about CONFIG GET and CONFIG SET                                  *)
(***************************************************************************)
\* C4: CONFIG GET name replies with the pair (name, value) when name is an
\* entry of config, and with the empty array when it is not.
C4_ConfigGetExact ==
  \A c \in Conns :
    pc[c] = "GetConfig_RUnlock" =>
      ConfigGetReply(c) =
        writeArray(IF cmd[c][3] \in DOMAIN config
                   THEN <<cmd[c][3], config[cmd[c][3]]>> ELSE <<>>)

\* C5: once CONFIG SET name val has run, CONFIG GET name replies with the
\* array of name and the val of the last CONFIG SET of that name.
C5_ConfigSetThenGet ==
  \A c \in Conns :
    (pc[c] = "GetConfig_RUnlock" /\ cmd[c][3] \in DOMAIN lastConfigSet)
      => ConfigGetReply(c) = writeArray(<<cmd[c][3], lastConfigSet[cmd[c][3]]>>)

\* the pairs of a result of CONFIG GET
Pairs(r) == {<<r[2 * i - 1], r[2 * i]>> : i \in 1..(Len(r) \div 2)}

\* r holds one pair for each entry of m and nothing else
OnePairEach(r, m) ==
  /\ Len(r) = 2 * Cardinality(DOMAIN m)
  /\ Pairs(r) = {<<k, m[k]>> : k \in DOMAIN m}

\* C7: no connection is in the range of CONFIG GET * while another is inside
\* the write of SetConfig, and the reply holds one pair for each entry of
\* config as it was at one instant of the command.
C7_RangeUnderLock ==
  [][\A c \in Conns :
       /\ pc'[c] = "range" => \A d \in Conns : pc'[d] # "SetConfig_write"
       /\ (pc[c] = "range" /\ pc'[c] = "parse") =>
            /\ Last(out'[c]) = writeArray(result[c])
            /\ \E m \in instants[c] : OnePairEach(result[c], m)]_vars

(***************************************************************************)
(* Claims about errors                                                     *)
(***************************************************************************)
KnownVerbs == {PING, SET, GET, DEL, HELP, SELECT, CONFIG}

\* fewer arguments than the verb needs
TooFew(cm) ==
  LET verb == ToUpper(cm[1])
      n == Len(cm) - 1
  IN  CASE verb = SET -> n < 2
        [] verb \in {GET, DEL, SELECT} -> n < 1
        [] verb = CONFIG ->
             \/ n < 1
             \/ ToUpper(cm[2]) = GET /\ n < 2
             \/ ToUpper(cm[2]) = SET /\ n < 3
        [] OTHER -> FALSE

CommandError(cm) == ToUpper(cm[1]) \notin KnownVerbs \/ TooFew(cm)

LengthLine(buf) == SubSeq(Tail(buf), 1, LineEnd(Tail(buf)))

\* buf starts with a bulk string whose length is no number, or whose
\* length the stream, at its end, does not satisfy
BadBulk(buf, end) ==
  /\ LineEnd(Tail(buf)) > 0
  /\ LET n == Atoi(TrimSpace(LengthLine(buf)))
         body == Drop(Tail(buf), LineEnd(Tail(buf)))
     IN  \/ ~n.ok
         \/ n.ok /\ n.val >= 0 /\ end /\ Len(body) < n.val

RECURSIVE BadElements(_, _, _)
\* one of the left elements that buf starts with is no bulk string or a bad one
BadElements(buf, end, left) ==
  /\ left > 0
  /\ buf # <<>>
  /\ \/ Head(buf) # "$"
     \/ BadBulk(buf, end)
     \/ LET s == parseBulkString(buf, end)
        IN  s.st = "ok" /\ BadElements(s.rest, end, left - 1)

\* the frame buf starts with is one the decoder has to refuse
Malformed(buf, end) ==
  /\ buf # <<>>
  /\ \/ Head(buf) = "$" /\ BadBulk(buf, end)
     \/ /\ Head(buf) = "*"
        /\ LineEnd(Tail(buf)) > 0
        /\ LET n == Atoi(TrimSpace(LengthLine(buf)))
           IN  \/ ~n.ok
               \/ n.ok /\ BadElements(Drop(Tail(buf), LineEnd(Tail(buf))), end, n.val)

\* parseRESP returns to c in this step
Parsed(c) ==
  /\ pc[c] = "parse"
  /\ pc'[c] # "parse" \/ Len(inbuf'[c]) < Len(inbuf[c])

\* C10: when the frame to decode has a length that is no number, is cut
\* short by the end of the stream, or has an array element that does not
\* start with '$', parseRESP fails and the connection closes: nothing of it
\* is dispatched then or later, no store changes, and the other connections
\* are where they were.
C10_MalformedCloses ==
  [][\A c \in Conns :
       /\ (Parsed(c) /\ Malformed(inbuf[c], eof[c])) =>
            /\ pc'[c] = "closed"
            /\ data' = data /\ config' = config
            /\ \A d \in Conns \ {c} : pc'[d] = pc[d]
       /\ pc[c] = "closed" => pc'[c] = "closed" /\ out'[c] = out[c]]_vars

(***************************************************************************)
(* Clients that use every verb                                             *)
(***************************************************************************)
MaxSentAll == 2

\* every verb of processCommand, with a command of each kind of reply
AllCommands ==
  { <<PING>>, <<PING, a>>, <<SET, a, x>>, <<SET, a>>, <<GET, a>>, <<DEL, a, b>>,
    <<HELP>>, <<SELECT, a>>, <<CONFIG, foo>>, <<CONFIG, GET, port>>,
    <<CONFIG, GET, Star>>, <<CONFIG, SET, a, x>>, <<CONFIG, SET, port, yz>>,
    <<foo>> }

NextAll ==
  \E c \in Conns :
    \/ \E f \in Frames(AllCommands) : Send(c, f, MaxSentAll)
    \/ Handler(c)
    \/ KVStore(c)
    \/ ConfigStore(c)

SpecAll == Init /\ [][NextAll]_vars

(***************************************************************************)
(* Claims about the locks                                                  *)
(***************************************************************************)
InConfigWrite(c) ==
  pc[c] \in {"SetConfig_cs", "SetConfig_write", "SetConfig_Unlock"}

InConfigRead(c) == pc[c] \in {"GetConfig_cs", "GetConfig_RUnlock"}

\* C11: data and config have a lock each: a connection that waits to enter
\* a section of one store can enter it whenever no connection is inside a
\* section of that store that excludes it, whoever is inside a section of
\* the other store.
C11_IndependentLocks ==
  \A c \in Conns :
    /\ (/\ pc[c] \in {"Set_Lock", "Delete_Lock"}
        /\ \A d \in Conns : ~InWrite(d) /\ ~InRead(d)) => CanLock(c)
    /\ (pc[c] = "Get_RLock" /\ \A d \in Conns : ~InWrite(d)) => CanRLock(c)
    /\ (/\ pc[c] = "SetConfig_Lock"
        /\ \A d \in Conns : ~InConfigWrite(d) /\ ~InConfigRead(d)) => CanLock(c)
    /\ (pc[c] = "GetConfig_RLock" /\ \A d \in Conns : ~InConfigWrite(d))
         => CanRLock(c)

(***************************************************************************)
(* Clients that delete two keys in one command                             *)
(***************************************************************************)
MaxSentDel == 4

DelCommands == { <<SET, a, x>>, <<SET, b, x>>, <<DEL, a, b>>, <<GET, a>> }

NextDel ==
  \E c \in Conns :
    \/ \E f \in Frames(DelCommands) : Send(c, f, MaxSentDel)
    \/ Handler(c)
    \/ KVStore(c)

SpecDel == Init /\ [][NextDel]_vars

InDelete(c) == pc[c] \in {"Delete_cs", "Delete_write", "Delete_Unlock"}

\* C12: DEL deletes its keys one by one, in the order of its arguments, each
\* in a section of its own under the exclusive lock, and does not hold the
\* lock from one section to the next.
C12_DelNotAtomic ==
  [][\A c \in Conns :
       /\ (pc[c] = "dispatch" /\ pc'[c] = "Delete_Lock") => idx'[c] = 1
       /\ InDelete(c)' => writer' = c
       /\ (pc[c] = "Delete_write" /\ pc'[c] = "Delete_Unlock") =>
            data' = MapDelete(data, cmd[c][idx[c] + 1])
       /\ (pc[c] = "Delete_Unlock" /\ pc'[c] = "Delete_Lock") =>
            /\ writer' = 0 /\ readers' = {}
            /\ idx'[c] = idx[c] + 1
       /\ pc'[c] = "Delete_Lock" => writer' # c]_vars

\* between the two sections of DEL a b, which found a present, the GET a of
\* another connection has found a absent while b is still there
C12_Witness ==
  \E c, d \in Conns :
    /\ c # d
    /\ cmd[c] = <<DEL, a, b>> /\ pc[c] = "Delete_Lock" /\ idx[c] = 2
    /\ removed[c] = 1
    /\ b \in DOMAIN data
    /\ cmd[d] = <<GET, a>> /\ pc[d] = "Get_RUnlock" /\ ret[d] = Nil

(***************************************************************************)
(* Clients that call every operation of the store, with goroutines that    *)
(* the scheduler runs fairly                                               *)
(***************************************************************************)
MaxSentLive == 2

LiveCommands ==
  { <<SET, a, x>>, <<GET, a>>, <<DEL, a, b>>, <<CONFIG, SET, a, x>>,
    <<CONFIG, GET, a>> }

\* SetConfig and GetConfig
ConfigOps(c) ==
  \/ SetConfigLock(c) \/ SetConfigBegin(c) \/ SetConfigWrite(c)
  \/ SetConfigUnlock(c)
  \/ GetConfigRLock(c) \/ GetConfigRead(c) \/ GetConfigRUnlock(c)

NextLive ==
  \E c \in Conns :
    \/ \E f \in Frames(LiveCommands) : Send(c, f, MaxSentLive)
    \/ Handler(c)
    \/ KVStore(c)
    \/ ConfigOps(c)

\* a goroutine that can take a step of a store operation is not left
\* waiting for ever
SpecLive ==
  /\ Init
  /\ [][NextLive]_vars
  /\ \A c \in Conns : WF_vars(KVStore(c) \/ ConfigOps(c))

\* c has called a store operation that waits for the lock
Waiting(c) ==
  pc[c] \in {"Set_Lock", "Get_RLock", "Delete_Lock", "SetConfig_Lock",
             "GetConfig_RLock"}

\* c is between the Lock and the Unlock of a store operation
Holding(c) == InWrite(c) \/ InRead(c) \/ InConfigWrite(c) \/ InConfigRead(c)

\* the lock is held by the operations in progress and by nothing else
LockMatchesSections ==
  /\ readers = {c \in Conns : InRead(c) \/ InConfigRead(c)}
  /\ \A c \in Conns : (InWrite(c) \/ InConfigWrite(c)) <=> writer = c
  /\ writer # 0 => writer \in Conns /\ readers = {}

\* where a connection waits for the lock, a connection can take a step
NoDeadlock ==
  (\E c \in Conns : Waiting(c)) =>
    \E d \in Conns :
      \/ Holding(d)
      \/ pc[d] \in {"Set_Lock", "Delete_Lock", "SetConfig_Lock"} /\ CanLock(d)
      \/ pc[d] \in {"Get_RLock", "GetConfig_RLock"} /\ CanRLock(d)

MaxSentCodec == 2

\* tokens of a command, at most
MaxTokens == 2

\* the empty token, tokens with CR, LF and spaces, a token that reads as a
\* frame, a token of one byte and one whose length has two digits
CodecTokens ==
  { <<>>, CRLF, <<SP, "b", SP>>, <<LF, "$", "1", CR>>, a, max_clients }

TokenSeqs == UNION {[1..n -> CodecTokens] : n \in 0..MaxTokens}

NextCodec ==
  \E c \in Conns :
    \/ \E t \in TokenSeqs : Send(c, writeArray(t), MaxSentCodec)
    \/ Handler(c)

SpecCodec == Init /\ [][NextCodec]_vars

IsPrefix(p, s) == Len(p) <= Len(s) /\ SubSeq(s, 1, Len(p)) = p

\* C14: when the bytes to decode start with writeArray(t), parseRESP
\* returns t with no error and leaves exactly the bytes after the frame, and
\* that is what the handler takes as its command.
C14_RoundTrip ==
  /\ [](\A c \in Conns : \A t \in TokenSeqs :
          (pc[c] = "parse" /\ IsPrefix(writeArray(t), inbuf[c])) =>
            parseRESP(inbuf[c], eof[c]) =
              [st |-> "ok", cmd |-> t,
               rest |-> Drop(inbuf[c], Len(writeArray(t)))])
  /\ [][\A c \in Conns : \A t \in TokenSeqs :
          (Parsed(c) /\ IsPrefix(writeArray(t), inbuf[c])) =>
            /\ cmd'[c] = t
            /\ inbuf'[c] = Drop(inbuf[c], Len(writeArray(t)))
            /\ pc'[c] = IF t = <<>> THEN "parse" ELSE "dispatch"]_vars

\* a command of a token with CR LF and the empty token has been decoded,
\* after another command of the connection, and the frame that follows it
\* is still to be read
C14_Witness ==
  \E c \in Conns :
    /\ pc[c] = "dispatch"
    /\ cmd[c] = <<CRLF, <<>>>>
    /\ inbuf[c] = writeArray(<<max_clients, <<LF, "$", "1", CR>>>>)

MaxSentBulk == 2

BulkTokens == { <<>>, a, PING, max_clients }

\* each token as a bulk string on its own, and as the one element of an array
BulkFrames ==
  {writeBulkString(t) : t \in BulkTokens} \cup {writeArray(<<t>>) : t \in BulkTokens}

NextBulk ==
  \E c \in Conns :
    \/ \E f \in BulkFrames : Send(c, f, MaxSentBulk)
    \/ Handler(c)

SpecBulk == Init /\ [][NextBulk]_vars

\* C16: when the bytes to decode start with the bulk string of a token,
\* parseRESP returns the command of that one token with no error and leaves
\* the bytes after the frame, as it does for the array of that one token.
C16_TopLevelBulk ==
  \A c \in Conns : \A t \in BulkTokens :
    /\ (pc[c] = "parse" /\ IsPrefix(writeBulkString(t), inbuf[c])) =>
         parseRESP(inbuf[c], eof[c]) =
           [st |-> "ok", cmd |-> <<t>>,
            rest |-> Drop(inbuf[c], Len(writeBulkString(t)))]
    /\ (pc[c] = "parse" /\ IsPrefix(writeArray(<<t>>), inbuf[c])) =>
         parseRESP(inbuf[c], eof[c]) =
           [st |-> "ok", cmd |-> <<t>>,
            rest |-> Drop(inbuf[c], Len(writeArray(<<t>>)))]

(***************************************************************************)
(* Clients that set one key, which nobody deletes                          *)
(***************************************************************************)
MaxSentSet == 3

SetCommands == { <<SET, a, x>>, <<SET, a, yz>>, <<GET, a>> }

NextSet ==
  \E c \in Conns :
    \/ \E f \in Frames(SetCommands) : Send(c, f, MaxSentSet)
    \/ Handler(c)
    \/ SetLock(c) \/ SetCheck(c) \/ SetWrite(c) \/ SetUnlock(c)
    \/ GetRLock(c) \/ GetRead(c) \/ GetRUnlock(c)

SpecSet == Init /\ [][NextSet]_vars

\* the replies equal to frame that the connections have been sent
Replies(frame) ==
  {ci \in Conns \X (1..MaxSentSet) :
     ci[2] <= Len(out[ci[1]]) /\ out[ci[1]][ci[2]] = frame}

\* C17: of the SETs of a key that starts absent and is not deleted, the one
\* that finds it absent under the lock stores its value and is answered OK,
\* and it is the only one; every other is answered false and changes
\* nothing; the value of a key that stays in the store does not change.
C17_SetNeverOverwrites ==
  /\ [](/\ Cardinality(Replies(writeString(OK))) <= 1
        /\ Replies(writeString(False)) # {} =>
             Cardinality(Replies(writeString(OK))) = 1
        /\ Replies(writeString(OK)) # {} => a \in DOMAIN data)
  /\ [][/\ \A k \in DOMAIN data : k \in DOMAIN data' => data'[k] = data[k]
        /\ \A c \in Conns :
             /\ (pc[c] = "Set_cs" /\ pc'[c] # "Set_cs") =>
                  IF cmd[c][2] \in DOMAIN data
                  THEN ret'[c] = False /\ pc'[c] = "Set_Unlock" /\ data' = data
                  ELSE pc'[c] = "Set_write"
             /\ (pc[c] = "Set_write" /\ pc'[c] = "Set_Unlock") =>
                  ret'[c] = OK /\ data' = MapSet(data, cmd[c][2], cmd[c][3])
             /\ (pc[c] = "Set_Unlock" /\ pc'[c] = "parse") =>
                  /\ ret[c] \in {OK, False}
                  /\ out'[c] = Append(out[c], writeString(ret[c]))
                  /\ ret[c] = OK => data[cmd[c][2]] = cmd[c][3]
                  /\ data' = data]_vars

\* SET a x of one connection has been answered OK, and the SET a yz of
\* another, which came to the lock after it, is about to be answered false
C17_Witness ==
  \E c, d \in Conns :
    /\ c # d
    /\ out[c] = <<writeString(OK)>>
    /\ data = (a :> x)
    /\ pc[d] = "Set_Unlock" /\ cmd[d] = <<SET, a, yz>> /\ ret[d] = False

(***************************************************************************)
(* Claims about the loop of a connection                                   *)
(***************************************************************************)
\* c is inside processCommand
Busy(c) == pc[c] \notin {"idle", "parse", "closed"}

RECURSIVE CountFrames(_)
\* the frames that buf holds
CountFrames(buf) ==
  IF buf = <<>> THEN 0 ELSE 1 + CountFrames(parseRESP(buf, TRUE).rest)

RECURSIVE Total(_, _)
\* f[1] + ... + f[n]
Total(f, n) == IF n = 0 THEN 0 ELSE f[n] + Total(f, n - 1)

MaxSentEmpty == 3

\* a blank line, a line of spaces, the array of length 0 and the null array
EmptyFrames ==
  { CRLF, <<SP, SP, CR, LF>>, <<"*", "0", CR, LF>>, <<"*", "-", "1", CR, LF>> }

\* the frames with no tokens, a SET, and an array whose length is no number
NextEmpty ==
  \E c \in Conns :
    \/ \E f \in EmptyFrames \cup {writeArray(<<SET, a, x>>), <<"*", "a", CR, LF>>} :
         Send(c, f, MaxSentEmpty)
    \/ Hangup(c)
    \/ Handler(c)
    \/ SetLock(c) \/ SetCheck(c) \/ SetWrite(c) \/ SetUnlock(c)

SpecEmpty == Init /\ [][NextEmpty]_vars

\* C19: a frame with no tokens decodes with no error; the handler consumes
\* it, dispatches nothing, writes nothing, changes no store and stays in its
\* loop; and a connection closes only from its loop, when parseRESP fails,
\* at the end of the stream or on an error.
C19_EmptySkipped ==
  /\ [](\A c \in Conns : \A f \in EmptyFrames :
          (pc[c] = "parse" /\ IsPrefix(f, inbuf[c])) =>
            parseRESP(inbuf[c], eof[c]) =
              [st |-> "ok", cmd |-> <<>>, rest |-> Drop(inbuf[c], Len(f))])
  /\ [][\A c \in Conns :
          /\ \A f \in EmptyFrames :
               (Parsed(c) /\ IsPrefix(f, inbuf[c])) =>
                 /\ pc'[c] = "parse"
                 /\ inbuf'[c] = Drop(inbuf[c], Len(f))
                 /\ out' = out
                 /\ data' = data /\ config' = config
          /\ (pc[c] # "closed" /\ pc'[c] = "closed") =>
               /\ pc[c] = "parse"
               /\ parseRESP(inbuf[c], eof[c]).st \in {"eof", "err"}
          /\ pc'[c] = "dispatch" => cmd'[c] # <<>>]_vars

\* the one connection has been sent three frames and has skipped two of
\* them, writing nothing, before the SET it now dispatches
C19_Witness ==
  \E c \in Conns :
    /\ sent = 3 /\ \A d \in Conns \ {c} : pc[d] = "idle"
    /\ pc[c] = "dispatch" /\ cmd[c] = <<SET, a, x>>
    /\ out[c] = <<>> /\ inbuf[c] = <<>> /\ ~eof[c]

(***************************************************************************)
(* Claims about what the commands change                                   *)
(***************************************************************************)
\* m and n are the same map but for the keys of K
SameBut(m, n, K) ==
  \A k \in (DOMAIN m \cup DOMAIN n) \ K :
    k \in DOMAIN m /\ k \in DOMAIN n /\ m[k] = n[k]

\* the keys of data that the command names
NamedKeys(cm) ==
  CASE ToUpper(cm[1]) = SET /\ Len(cm) >= 3 -> {cm[2]}
    [] ToUpper(cm[1]) = DEL -> {cm[i] : i \in 2..Len(cm)}
    [] OTHER -> {}

\* the names of config that the command names
NamedConfig(cm) ==
  IF ToUpper(cm[1]) = CONFIG /\ Len(cm) >= 4 /\ ToUpper(cm[2]) = SET
  THEN {cm[3]} ELSE {}

Seeded ==
  (port :> portDefault) @@ (bind :> bindDefault)
    @@ (max_clients :> max_clientsDefault) @@ (timeout :> timeoutDefault)

\* C20: a step changes data only at the keys named by the SET or DEL of the
\* connection that takes it, and config only at the name of its CONFIG SET;
\* the steps of every other command, and of no command, change neither; and
\* a seeded entry of config that no CONFIG SET has named has its default.
C20_OnlyOwnWriters ==
  /\ [](\A n \in DOMAIN Seeded :
          n \notin DOMAIN lastConfigSet =>
            n \in DOMAIN config /\ config[n] = Seeded[n])
  /\ [][/\ (\A c \in Conns : pc'[c] = pc[c]) => data' = data /\ config' = config
        /\ \A c \in Conns :
             pc'[c] # pc[c] =>
               IF Busy(c)
               THEN /\ SameBut(data, data', NamedKeys(cmd[c]))
                    /\ SameBut(config, config', NamedConfig(cmd[c]))
               ELSE data' = data /\ config' = config]_vars

\* SET a x and CONFIG SET port yz have run: a is in data and not in config,
\* port has its new value and the other seeded entries their defaults
C20_Witness ==
  /\ data = (a :> x)
  /\ config = (port :> yz) @@ Seeded
  /\ \A c \in Conns : pc[c] \in {"idle", "parse"}

====
